---- MODULE Spec2Model ----
(***************************************************************************)
(* Seasonal pattern analysis of Monthlypatterns.py: download_data,         *)
(* analyze_month_patterns and the Annual Overview loop of main.            *)
(*                                                                         *)
(* Numbers.  A float is modelled as an exact rational <<n, d>> in lowest   *)
(* terms with d > 0; NaN is the pair <<0, 0>>.  Rounding of IEEE doubles   *)
(* is not modelled.  Close prices are positive, so no division by zero     *)
(* (inf) occurs.                                                           *)
(***************************************************************************)
EXTENDS Integers, Sequences, FiniteSets, TLC

(***************************************************************************)
(* Bounds of the model.                                                    *)
(***************************************************************************)
NumYears == 2
MaxObs == 21
MaxClose == 2

(***************************************************************************)
(* Program constants.                                                      *)
(***************************************************************************)
MinObs == 10
RollWindow == 3
WeekLen == 5

(***************************************************************************)
(* Rational arithmetic with NaN propagation (numpy / pandas floats).       *)
(***************************************************************************)
NaN == <<0, 0>>

isnan(x) == x[2] = 0

notna(x) == x[2] # 0

Abs(n) == IF n < 0 THEN -n ELSE n

RECURSIVE Gcd(_, _)
Gcd(a, b) == IF b = 0 THEN a ELSE Gcd(b, a % b)

Norm(n, d) ==
    IF d = 0 THEN NaN
    ELSE LET g == Gcd(Abs(n), Abs(d))
             s == IF d < 0 THEN -1 ELSE 1
         IN  <<(s * n) \div g, (s * d) \div g>>

Num(k) == <<k, 1>>

RAdd(a, b) ==
    IF isnan(a) \/ isnan(b) THEN NaN
    ELSE Norm(a[1] * b[2] + b[1] * a[2], a[2] * b[2])

RSub(a, b) ==
    IF isnan(a) \/ isnan(b) THEN NaN
    ELSE Norm(a[1] * b[2] - b[1] * a[2], a[2] * b[2])

RMul(a, b) ==
    IF isnan(a) \/ isnan(b) THEN NaN
    ELSE Norm(a[1] * b[1], a[2] * b[2])

RDiv(a, b) ==
    IF isnan(a) \/ isnan(b) THEN NaN
    ELSE Norm(a[1] * b[2], a[2] * b[1])

RGt(a, b) == notna(a) /\ notna(b) /\ a[1] * b[2] > b[1] * a[2]

RECURSIVE RSumRange(_, _, _)
\* s[lo] + ... + s[hi], by halves
RSumRange(s, lo, hi) ==
    IF lo > hi THEN Num(0)
    ELSE IF lo = hi THEN s[lo]
    ELSE LET mid == (lo + hi) \div 2
         IN  RAdd(RSumRange(s, lo, mid), RSumRange(s, mid + 1, hi))

RSum(s) == RSumRange(s, 1, Len(s))

\* np.mean of a list; the mean of an empty list is NaN
np_mean(s) == IF s = <<>> THEN NaN ELSE RDiv(RSum(s), Num(Len(s)))

\* max(): the first of the largest items
RMax(s) ==
    s[CHOOSE i \in 1..Len(s) :
          /\ \A j \in 1..Len(s) : ~RGt(s[j], s[i])
          /\ \A j \in 1..(i - 1) : RGt(s[i], s[j])]

(***************************************************************************)
(* Sequence helpers.                                                       *)
(***************************************************************************)
\* a sequence, respectively a mapping, given by a rule, evaluated once
AsSeq(f) == <<>> \o f

AsMap(f) == f @@ <<>>

\* the items of s at the positions of the set P, in the order of s
AtPositions(s, P) ==
    AsSeq([k \in 1..Cardinality(P) |->
              s[CHOOSE i \in P : Cardinality({j \in P : j <= i}) = k]])

Reverse(s) == [i \in 1..Len(s) |-> s[Len(s) + 1 - i]]

\* Series.unique(): the distinct values in order of first appearance
unique(s) ==
    AtPositions(s, {i \in 1..Len(s) : \A j \in 1..(i - 1) : s[j] # s[i]})

\* list(d.values()), the keys taken in ascending order
values(d) ==
    LET K == DOMAIN d
    IN  AsSeq([i \in 1..Cardinality(K) |->
                  d[CHOOSE k \in K : Cardinality({z \in K : z <= k}) = i]])

(***************************************************************************)
(* The price series handed over by yf.download: rows (index, Close).  The  *)
(* index of a row is its date, year * 10000 + month * 100 + day.  Year y   *)
(* holds one row at the end of February followed by n[y] rows of one later *)
(* month; the closes are drawn from a three-value pattern that starts at 1 *)
(* (returns depend on the ratios of the closes only).                      *)
(***************************************************************************)
Years == 1..NumYears

Counts == {0, MinObs - 1, MinObs, MinObs + 1, MaxObs}

LaterCounts == {MinObs - 1, MaxObs}

Scenarios ==
    {"clean", "contiguous", "nan_pad", "nan_nofill", "reversed", "nolead",
     "nolead_nan", "split", "empty", "single"}

Inputs ==
    [n : {f \in [Years -> Counts] : \A y \in Years : y > 1 => f[y] \in LaterCounts},
     pat : {p \in [1..3 -> 1..MaxClose] : p[1] = 1},
     scen : Scenarios]

\* calendar day of the k-th row of year y's slice: even years start one day
\* later; weekends are skipped, but for the even years of "contiguous"
DayOf(inp, y, k) ==
    LET shift == (y - 1) % 2
        gaps == IF inp.scen = "contiguous" /\ shift = 1 THEN 0
                ELSE 2 * ((k - 1) \div 5)
    IN  k + gaps + shift

SliceMonth(inp, y) == IF inp.scen = "split" THEN 3 + ((y - 1) % 2) ELSE 3

Date(y, m, d) == y * 10000 + m * 100 + d

\* the dates of year y, ascending
YearDates(inp, y) ==
    (IF inp.scen \in {"nolead", "nolead_nan"} THEN <<>> ELSE <<Date(y, 2, 28)>>)
    \o [k \in 1..inp.n[y] |-> Date(y, SliceMonth(inp, y), DayOf(inp, y, k))]

RECURSIVE AllDates(_, _)
AllDates(inp, y) ==
    IF y > NumYears THEN <<>> ELSE YearDates(inp, y) \o AllDates(inp, y + 1)

\* position of the row whose close is missing (0: none)
NanPos(inp) ==
    IF inp.scen \in {"nan_pad", "nan_nofill"} THEN 4
    ELSE IF inp.scen = "nolead_nan" THEN 2 ELSE 0

\* which of the three pattern values row i takes: the pattern advances one
\* extra step every fourth row, so that it does not repeat with the window
PatIdx(i) == ((i + (i \div 4)) % 3) + 1

RawSeries(inp) ==
    LET dates == AllDates(inp, 1)
        rows == [i \in 1..Len(dates) |->
                    [index |-> dates[i],
                     Close |-> IF i = NanPos(inp) THEN NaN
                               ELSE Num(inp.pat[PatIdx(i)])]]
    IN  IF inp.scen = "empty" THEN <<>>
        ELSE IF inp.scen = "single" THEN SubSeq(rows, 1, 1)
        ELSE IF inp.scen = "reversed" THEN Reverse(rows) ELSE rows

\* the pct_change fill method of the installed pandas
FillOf(inp) == IF inp.scen = "nan_nofill" THEN "none" ELSE "pad"

(***************************************************************************)
(* A second family of series: one January whose first five closes are      *)
(* 100, 101, 99, 102, 103, preceded or not by a close on 31 December, and  *)
(* followed by tail further closes that alternate between tc and 103.      *)
(***************************************************************************)
FiveCloses == <<100, 101, 99, 102, 103>>

OpeningInputs ==
    [lead : {0, 99, 100},
     tail : {0, MinObs - 6, MinObs - 5, MinObs - 4, MaxObs - 5},
     tc : {99, 103, 104}]

OpeningSeries(inp) ==
    (IF inp.lead = 0 THEN <<>>
     ELSE <<[index |-> Date(0, 12, 31), Close |-> Num(inp.lead)]>>)
    \o [k \in 1..5 |-> [index |-> Date(1, 1, k + 1), Close |-> Num(FiveCloses[k])]]
    \o [k \in 1..inp.tail |->
           [index |-> Date(1, 1, k + 6),
            Close |-> Num(IF k % 2 = 1 THEN inp.tc ELSE 103)]]

(***************************************************************************)
(* download_data                                                           *)
(***************************************************************************)
\* Series.ffill(): a missing value takes the last value before it
ffill(s) ==
    AsSeq([i \in 1..Len(s) |->
              LET J == {j \in 1..i : notna(s[j])}
              IN  IF J = {} THEN NaN ELSE s[CHOOSE j \in J : \A k \in J : k <= j]])

\* Series.pct_change(): x / x.shift(1) - 1 on the (filled) series
pct_change(s, fill) ==
    LET x == IF fill = "pad" THEN ffill(s) ELSE s
    IN  AsSeq([i \in 1..Len(s) |->
                  IF i = 1 THEN NaN ELSE RSub(RDiv(x[i], x[i - 1]), Num(1))])

index_year(ix) == ix \div 10000

index_month(ix) == (ix \div 100) % 100

index_day(ix) == ix % 100

download_data(raw, fill) ==
    LET ret == pct_change([i \in 1..Len(raw) |-> raw[i].Close], fill)
    IN  [i \in 1..Len(raw) |->
            [index |-> raw[i].index,
             Close |-> raw[i].Close,
             Daily_Return |-> ret[i],
             Year |-> index_year(raw[i].index),
             Month |-> index_month(raw[i].index),
             Day |-> index_day(raw[i].index)]]

(***************************************************************************)
(* analyze_month_patterns: the per-year slice.                             *)
(***************************************************************************)
\* data[data['Month'] == month_num]
month_rows(month, d) ==
    LET in_month(row) == row.Month = month IN SelectSeq(d, in_month)

\* month_data[month_data['Year'] == year]
year_rows(y, md) ==
    LET in_year(row) == row.Year = y IN SelectSeq(md, in_year)

valid_mask_close_only(row) == notna(row.Close)

valid_mask(row) == notna(row.Daily_Return) /\ notna(row.Close)

filter_valid(ym) == SelectSeq(ym, valid_mask)

insufficient_only_empty(year_month) == Len(year_month) < 1

insufficient_below_nine(year_month) == Len(year_month) < MinObs - 1

insufficient_off_by_one(ym) == Len(ym) <= MinObs

insufficient(ym) == Len(ym) < MinObs

sort_index_skipped(rows) == rows

\* DataFrame.sort_index(): ascending by date (dates are unique): the row
\* that k - 1 rows precede comes k-th
sort_index(rows) ==
    LET before(i) ==
            {j \in 1..Len(rows) :
                \/ rows[j].index < rows[i].index
                \/ rows[j].index = rows[i].index /\ j < i}
        ahead == AsSeq([i \in 1..Len(rows) |-> Cardinality(before(i))])
    IN  AsSeq([k \in 1..Len(rows) |->
                  rows[CHOOSE i \in 1..Len(rows) : ahead[i] = k - 1]])

first_price(ym) == ym[1].Close

month_return_gross(close, first) == RDiv(close, first)

month_return(close, first) == RSub(RDiv(close, first), Num(1))

trading_day(i) == i

trading_week_from_zero(td) == (td \div WeekLen) + 1

trading_week(td) == ((td - 1) \div WeekLen) + 1

rolling_return_trailing(ym, i) ==
    IF i - (RollWindow - 1) < 1 THEN NaN
    ELSE np_mean([k \in 1..RollWindow |-> ym[i - RollWindow + k].Daily_Return])

\* rolling(window=3, center=True).mean(): NaN unless the whole window lies
\* inside the slice and holds no NaN
rolling_return(ym, i) ==
    LET h == RollWindow \div 2
    IN  IF i - h < 1 \/ i + h > Len(ym) THEN NaN
        ELSE np_mean([k \in 1..RollWindow |-> ym[i - h - 1 + k].Daily_Return])

\* the slice with its derived columns (lines 361-370 and 383)
derive(filtered) ==
    LET ym == sort_index(filtered)
        fp == first_price(ym)
    IN  AsSeq([i \in 1..Len(ym) |->
                  [index |-> ym[i].index,
                   Close |-> ym[i].Close,
                   Daily_Return |-> ym[i].Daily_Return,
                   Year |-> ym[i].Year,
                   Month |-> ym[i].Month,
                   Day |-> ym[i].Day,
                   Month_Return |-> month_return(ym[i].Close, fp),
                   Trading_Day |-> trading_day(i),
                   Trading_Week |-> trading_week(trading_day(i)),
                   Day_of_Month |-> index_day(ym[i].index),
                   Rolling_Return |-> rolling_return(ym, i)]])

(***************************************************************************)
(* analyze_month_patterns: the three collectors.                           *)
(***************************************************************************)
\* if key not in d: d[key] = []; d[key].append(v)
append_to(d, key, v) ==
    [k \in (DOMAIN d) \cup {key} |->
        IF k = key THEN (IF key \in DOMAIN d THEN Append(d[key], v) ELSE <<v>>)
        ELSE d[k]]

Weeks_from_two == 2..4

Weeks_through_five == 1..5

Weeks == 1..4

week_data_to_month_end(ym, week) ==
    LET in_week(row) ==
            row.Trading_Week = week \/ (week = 4 /\ row.Trading_Week > 4)
    IN  SelectSeq(ym, in_week)

week_data(ym, week) ==
    LET in_week(row) == row.Trading_Week = week IN SelectSeq(ym, in_week)

iloc_first(s) == s[1]

iloc_last(s) == s[Len(s)]

RECURSIVE weekly_progression(_, _, _)
\* for week in range(1, 5), from week w on
weekly_progression(wr, ym, w) ==
    IF w \notin Weeks THEN wr
    ELSE LET wd == week_data(ym, w)
         IN  IF Len(wd) > 0
             THEN weekly_progression(
                      append_to(wr, w, iloc_last(wd).Month_Return), ym, w + 1)
             ELSE weekly_progression(wr, ym, w + 1)

momentum_step_keying_first(mb, row) ==
    IF notna(row.Rolling_Return)
    THEN append_to(mb, row.Day_of_Month, row.Rolling_Return)
    ELSE IF row.Day_of_Month \in DOMAIN mb THEN mb
    ELSE mb @@ (row.Day_of_Month :> <<>>)

\* lines 386-389, for one row
momentum_step(mb, row) ==
    IF notna(row.Rolling_Return)
    THEN append_to(mb, row.Day_of_Month, row.Rolling_Return)
    ELSE mb

RECURSIVE momentum_analysis(_, _, _, _)
\* for day, momentum in zip(Day_of_Month, Rolling_Return): rows lo..hi in
\* order, the range taken by halves
momentum_analysis(mb, ym, lo, hi) ==
    IF lo > hi THEN mb
    ELSE IF lo = hi THEN momentum_step(mb, ym[lo])
    ELSE LET mid == (lo + hi) \div 2
             left == momentum_analysis(mb, ym, lo, mid)
         IN  momentum_analysis(left, ym, mid + 1, hi)

is_win_or_flat(daily_return) == IF RGt(Num(0), daily_return) THEN 0 ELSE 1

is_win(daily_return) == IF RGt(daily_return, Num(0)) THEN 1 ELSE 0

\* lines 393-396, for one row
win_rate_step(pd, row) ==
    IF notna(row.Daily_Return)
    THEN append_to(pd, row.Day_of_Month, Num(is_win(row.Daily_Return)))
    ELSE pd

RECURSIVE win_rate_analysis(_, _, _, _)
\* for day, daily_return in zip(Day_of_Month, Daily_Return): rows lo..hi in
\* order, the range taken by halves
win_rate_analysis(pd, ym, lo, hi) ==
    IF lo > hi THEN pd
    ELSE IF lo = hi THEN win_rate_step(pd, ym[lo])
    ELSE LET mid == (lo + hi) \div 2
             left == win_rate_analysis(pd, ym, lo, mid)
         IN  win_rate_analysis(left, ym, mid + 1, hi)

\* {key: np.mean(v) * 100 for key, v in d.items()}
averages(d) == [k \in DOMAIN d |-> RMul(np_mean(d[k]), Num(100))]

(***************************************************************************)
(* main: one row of the Annual Overview (lines 651-662).                   *)
(***************************************************************************)
total_return_first(weekly) ==
    IF DOMAIN weekly # {} THEN values(weekly)[1] ELSE Num(0)

total_return(weekly) == IF DOMAIN weekly # {} THEN RMax(values(weekly)) ELSE Num(0)

avg_momentum(momentum) ==
    IF DOMAIN momentum # {} THEN np_mean(values(momentum)) ELSE Num(0)

avg_win_rate(win_rates) ==
    IF DOMAIN win_rates # {} THEN np_mean(values(win_rates)) ELSE Num(0)

include_row_always(years) == TRUE

\* if years:
include_row(years) == Len(years) > 0

summary_row(month, weekly, momentum, win_rates, years) ==
    [Month |-> month,
     Monthly_Return |-> total_return(weekly),
     Avg_Momentum |-> RMul(avg_momentum(momentum), Num(100)),
     Win_Rate |-> avg_win_rate(win_rates),
     Years |-> Len(years)]

(***************************************************************************)
(* State.                                                                  *)
(***************************************************************************)
VARIABLES
    pc,                   \* position in main / analyze_month_patterns
    fill_method,          \* pct_change's fill method in the installed pandas
    data,                 \* line 320: the frame as yf.download returns it,
                          \* then (lines 330-333) with download_data's columns
    month_num,            \* line 648: loop variable of the Annual Overview
    todo,                 \* line 350: years the for-loop has yet to visit
    year,                 \* line 350: its loop variable (0: none yet)
    year_month,           \* lines 351-383: the current year's slice
    weekly_returns,       \* line 345: week -> list of Month_Return
    momentum_by_day,      \* line 346: day -> list of Rolling_Return
    positive_days_by_day, \* line 347: day -> list of 0/1
    years_processed,      \* line 348: qualifying years, in order of appearance
    result,               \* line 403: what analyze_month_patterns returned
    summary_data,         \* line 647: rows of the Annual Overview
    caller,               \* the loop of main that called (line 649 or 786)
    tab_view              \* lines 784-804: what each month tab shows

vars ==
    <<pc, fill_method, data, month_num, todo, year, year_month,
      weekly_returns, momentum_by_day, positive_days_by_day, years_processed,
      result, summary_data, caller, tab_view>>

Months == 1..12

EmptyResult ==
    [weekly_avg_returns |-> <<>>, momentum_avg |-> <<>>, win_rates |-> <<>>,
     years |-> <<>>]

Init ==
    \E inp \in Inputs :
        /\ data = RawSeries(inp)
        /\ fill_method = FillOf(inp)
        /\ pc = "download"
        /\ month_num = 1
        /\ todo = <<>>
        /\ year = 0
        /\ year_month = <<>>
        /\ weekly_returns = <<>>
        /\ momentum_by_day = <<>>
        /\ positive_days_by_day = <<>>
        /\ years_processed = <<>>
        /\ result = EmptyResult
        /\ summary_data = <<>>
        /\ caller = "overview"
        /\ tab_view = <<>>

\* main, lines 549-559: download; stop when nothing came back
Download ==
    /\ pc = "download"
    /\ IF data = <<>>
       THEN /\ pc' = "stopped"
            /\ data' = data
       ELSE /\ pc' = "overview"
            /\ data' = download_data(data, fill_method)
    /\ UNCHANGED <<fill_method, month_num, todo, year, year_month,
                   weekly_returns, momentum_by_day, positive_days_by_day,
                   years_processed, result, summary_data, caller, tab_view>>

CallAnalyze_keeping_lists ==
    /\ pc \in {"overview", "tabs"}
    /\ month_num \in Months
    /\ caller' = pc
    /\ LET month_data == month_rows(month_num, data)
       IN  todo' = unique([i \in 1..Len(month_data) |-> month_data[i].Year])
    /\ year' = 0
    /\ year_month' = <<>>
    /\ pc' = "years"
    /\ UNCHANGED <<fill_method, data, month_num, result, summary_data, tab_view,
                   weekly_returns, momentum_by_day, positive_days_by_day,
                   years_processed>>

\* analyze_month_patterns, lines 343-350: entry, called from the Annual
\* Overview loop (line 649) or from the month tabs loop (line 786)
CallAnalyze ==
    /\ pc \in {"overview", "tabs"}
    /\ month_num \in Months
    /\ caller' = pc
    /\ LET month_data == month_rows(month_num, data)
       IN  todo' = unique([i \in 1..Len(month_data) |-> month_data[i].Year])
    /\ year' = 0
    /\ year_month' = <<>>
    /\ weekly_returns' = <<>>
    /\ momentum_by_day' = <<>>
    /\ positive_days_by_day' = <<>>
    /\ years_processed' = <<>>
    /\ pc' = "years"
    /\ UNCHANGED <<fill_method, data, month_num, result, summary_data, tab_view>>

\* lines 350-358: a year whose filtered slice is too short is skipped
SkipYear ==
    /\ pc = "years"
    /\ todo # <<>>
    /\ LET ym == filter_valid(year_rows(Head(todo), month_rows(month_num, data)))
       IN  /\ insufficient(ym)
           /\ year_month' = ym
    /\ year' = Head(todo)
    /\ todo' = Tail(todo)
    /\ UNCHANGED <<pc, fill_method, data, month_num, weekly_returns,
                   momentum_by_day, positive_days_by_day, years_processed,
                   result, summary_data, caller, tab_view>>

\* lines 350-396: a qualifying year
ProcessYear ==
    /\ pc = "years"
    /\ todo # <<>>
    /\ LET ym == filter_valid(year_rows(Head(todo), month_rows(month_num, data)))
           dm == derive(ym)
       IN  /\ ~insufficient(ym)
           /\ year_month' = dm
           /\ weekly_returns' = weekly_progression(weekly_returns, dm, 1)
           /\ momentum_by_day' =
                  IF Len(dm) >= RollWindow
                  THEN momentum_analysis(momentum_by_day, dm, 1, Len(dm))
                  ELSE momentum_by_day
           /\ positive_days_by_day' =
                  win_rate_analysis(positive_days_by_day, dm, 1, Len(dm))
    /\ years_processed' = Append(years_processed, Head(todo))
    /\ year' = Head(todo)
    /\ todo' = Tail(todo)
    /\ UNCHANGED <<pc, fill_method, data, month_num, result, summary_data,
                   caller, tab_view>>

\* lines 398-403: averages and return
CalcAverages ==
    /\ pc = "years"
    /\ todo = <<>>
    /\ result' = [weekly_avg_returns |-> averages(weekly_returns),
                  momentum_avg |-> averages(momentum_by_day),
                  win_rates |-> averages(positive_days_by_day),
                  years |-> years_processed]
    /\ pc' = IF caller = "overview" THEN "row" ELSE "tab"
    /\ UNCHANGED <<fill_method, data, month_num, todo, year, year_month,
                   weekly_returns, momentum_by_day, positive_days_by_day,
                   years_processed, summary_data, caller, tab_view>>

\* main, lines 651-662: the month's row, when it has qualifying years
SummaryAppend ==
    /\ pc = "row"
    /\ summary_data' =
           IF include_row(result.years)
           THEN Append(summary_data,
                       summary_row(month_num, result.weekly_avg_returns,
                                   result.momentum_avg, result.win_rates,
                                   result.years))
           ELSE summary_data
    /\ month_num' = month_num + 1
    /\ pc' = "overview"
    /\ UNCHANGED <<fill_method, data, todo, year, year_month,
                   weekly_returns, momentum_by_day, positive_days_by_day,
                   years_processed, result, caller, tab_view>>

\* line 648: range(1, 13) is exhausted; line 784: the month tabs loop starts
OverviewDone ==
    /\ pc = "overview"
    /\ month_num \notin Months
    /\ pc' = "tabs"
    /\ month_num' = 1
    /\ UNCHANGED <<fill_method, data, todo, year, year_month,
                   weekly_returns, momentum_by_day, positive_days_by_day,
                   years_processed, result, summary_data, caller, tab_view>>

\* if not years (line 789)
no_years(years) == Len(years) = 0

\* main, lines 787-804: a month tab shows the insufficient-data notice when
\* the month has no qualifying year, its analysis otherwise
TabShow ==
    /\ pc = "tab"
    /\ tab_view' = Append(tab_view,
                          IF no_years(result.years) THEN "insufficient"
                          ELSE "analysis")
    /\ month_num' = month_num + 1
    /\ pc' = "tabs"
    /\ UNCHANGED <<fill_method, data, todo, year, year_month,
                   weekly_returns, momentum_by_day, positive_days_by_day,
                   years_processed, result, summary_data, caller>>

\* line 784: range(1, 13) is exhausted
TabsDone ==
    /\ pc = "tabs"
    /\ month_num \notin Months
    /\ pc' = "done"
    /\ UNCHANGED <<fill_method, data, month_num, todo, year, year_month,
                   weekly_returns, momentum_by_day, positive_days_by_day,
                   years_processed, result, summary_data, caller, tab_view>>

Next ==
    \/ Download
    \/ CallAnalyze
    \/ SkipYear
    \/ ProcessYear
    \/ CalcAverages
    \/ SummaryAppend
    \/ OverviewDone
    \/ TabShow
    \/ TabsDone

Spec == Init /\ [][Next]_vars

\* analyze_month_patterns applied to January of a series of the second family
OpeningInit ==
    \E inp \in OpeningInputs, fill \in {"pad", "none"} :
        /\ data = OpeningSeries(inp)
        /\ fill_method = fill
        /\ pc = "download"
        /\ month_num = 1
        /\ todo = <<>>
        /\ year = 0
        /\ year_month = <<>>
        /\ weekly_returns = <<>>
        /\ momentum_by_day = <<>>
        /\ positive_days_by_day = <<>>
        /\ years_processed = <<>>
        /\ result = EmptyResult
        /\ summary_data = <<>>
        /\ caller = "overview"
        /\ tab_view = <<>>

OpeningNext ==
    \/ Download
    \/ CallAnalyze
    \/ SkipYear
    \/ ProcessYear
    \/ CalcAverages

OpeningSpec == OpeningInit /\ [][OpeningNext]_vars

TypeOK ==
    pc \in {"download", "stopped", "overview", "years", "row", "tabs", "tab",
            "done"}

(***************************************************************************)
(* Vocabulary of the properties, stated over the downloaded frame alone:   *)
(* sets of row positions of data, not the program's intermediate frames.   *)
(***************************************************************************)
\* positions of the observations of (y, m) with close and return defined
ValidObs(y, m) ==
    {i \in 1..Len(data) :
        /\ data[i].Year = y
        /\ data[i].Month = m
        /\ data[i].Close # NaN
        /\ data[i].Daily_Return # NaN}

NumObs(y, m) == Cardinality(ValidObs(y, m))

Qualifies(y, m) == NumObs(y, m) >= 10

QualifyingYears(m) == {y \in Years : Qualifies(y, m)}

WeekOf(r) == CHOOSE w \in 1..r : 5 * (w - 1) < r /\ r <= 5 * w

\* the slice of (y, m) by date: obs, its valid observations; n, their number;
\* rank[i], the 1-based position of observation i among them by date; at[r],
\* the observation of rank r; week[i], the trading week of observation i
Slice(y, m) ==
    LET V == ValidObs(y, m)
        rank == AsMap([i \in V |->
                          1 + Cardinality({j \in V : data[j].index < data[i].index})])
    IN  [obs |-> V,
         n |-> Cardinality(V),
         rank |-> rank,
         at |-> AsSeq([r \in 1..Cardinality(V) |-> CHOOSE i \in V : rank[i] = r]),
         week |-> AsMap([i \in V |-> WeekOf(rank[i])])]

\* month_return of observation i of slice S: its close over the close of
\* the slice's earliest observation, minus 1
RebasedReturn(S, i) == RSub(RDiv(data[i].Close, data[S.at[1]].Close), Num(1))

ObsOfWeek(S, w) == {i \in S.obs : S.week[i] = w}

\* the latest-dated observation of week w
LastOfWeek(S, w) ==
    LET O == ObsOfWeek(S, w)
    IN  CHOOSE i \in O : \A j \in O : data[j].index <= data[i].index

\* calendar days of the observations strictly between the first and the last
InteriorDays(S) == {data[i].Day : i \in {j \in S.obs : 1 < S.rank[j] /\ S.rank[j] < S.n}}

ObsDays(S) == {data[i].Day : i \in S.obs}

ObsOnDay(S, d) == CHOOSE i \in S.obs : data[i].Day = d

InSeq(x, s) == \E i \in 1..Len(s) : s[i] = x

RECURSIVE SumOver(_, _)
\* the sum of f[x] over the set S of numbers, by halves
SumOver(f, S) ==
    IF S = {} THEN Num(0)
    ELSE IF Cardinality(S) = 1 THEN f[CHOOSE x \in S : TRUE]
    ELSE LET x == CHOOSE x \in S :
                      2 * Cardinality({z \in S : z <= x}) \in
                          {Cardinality(S), Cardinality(S) - 1}
             L == {z \in S : z <= x}
         IN  RAdd(SumOver(f, L), SumOver(f, S \ L))

MeanOver(f, S) == RDiv(SumOver(f, S), Num(Cardinality(S)))

Hundred(x) == RMul(Num(100), x)

CountAt(dict, k) == IF k \in DOMAIN dict THEN Len(dict[k]) ELSE 0

LastAt(dict, k) == dict[k][Len(dict[k])]

ProcessedYears == {years_processed[i] : i \in 1..Len(years_processed)}

Days == 1..31

\* the slice of the year just visited has been derived
Processed ==
    /\ pc = "years"
    /\ year # 0
    /\ years_processed # <<>>
    /\ years_processed[Len(years_processed)] = year

\* analyze_month_patterns has just returned to the Annual Overview loop
Returned == pc = "row"

\* the Annual Overview loop has just handled the month of result
RowHandled == pc = "overview" /\ month_num > 1

\* analyze_month_patterns has just returned to the month tabs loop
ReturnedToTab == pc = "tab"

\* analyze_month_patterns has just returned, to either loop
Answered == Returned \/ ReturnedToTab

(***************************************************************************)
(* C1.  A year is in the years result if and only if its slice for the     *)
(* month has at least 10 observations with close and daily_return both     *)
(* defined; no year is listed twice.                                       *)
(***************************************************************************)
C1_QualificationThreshold ==
    Returned =>
        /\ \A y \in Years : InSeq(y, result.years) <=> Qualifies(y, month_num)
        /\ \A i \in 1..Len(result.years) : result.years[i] \in Years
        /\ \A i, j \in 1..Len(result.years) :
               result.years[i] = result.years[j] => i = j

\* one year with exactly 10 valid observations is listed, another with
\* exactly 9 is not
C1_Witness ==
    /\ Returned
    /\ \E y, z \in Years :
           /\ NumObs(y, month_num) = 10
           /\ InSeq(y, result.years)
           /\ NumObs(z, month_num) = 9
           /\ ~InSeq(z, result.years)

C3_MeanMomentumUnscaled ==
    (RowHandled /\ result.years # <<>>) =>
        summary_data[Len(summary_data)].Avg_Momentum
            = MeanOver(result.momentum_avg, DOMAIN result.momentum_avg)

(***************************************************************************)
(* C4.  The return field of a month's summary row is the maximum of the    *)
(* values of the month's weekly_return mapping, and the year-count field   *)
(* is the number of qualifying years.                                      *)
(***************************************************************************)
C4_PeakWeeklyReturn ==
    (RowHandled /\ result.years # <<>>) =>
        LET row == summary_data[Len(summary_data)]
            wr == result.weekly_avg_returns
        IN  /\ row.Month = month_num - 1
            /\ \E w \in DOMAIN wr : row.Monthly_Return = wr[w]
            /\ \A w \in DOMAIN wr : ~RGt(wr[w], row.Monthly_Return)
            /\ row.Years = Cardinality(QualifyingYears(month_num - 1))

\* the weekly means differ, the peak is not the first week's, two years count
C4_Witness ==
    /\ RowHandled
    /\ result.years # <<>>
    /\ LET row == summary_data[Len(summary_data)]
           wr == result.weekly_avg_returns
       IN  /\ row.Years = 2
           /\ RGt(row.Monthly_Return, wr[1])
           /\ \E w \in DOMAIN wr : RGt(wr[w], wr[1]) /\ RGt(row.Monthly_Return, wr[w])

(***************************************************************************)
(* C5.  Every key of weekly_return is one of 1, 2, 3, 4, also when a       *)
(* qualifying slice has more than 20 filtered trading days.                *)
(***************************************************************************)
C5_WeeklyKeys ==
    /\ DOMAIN weekly_returns \subseteq {1, 2, 3, 4}
    /\ DOMAIN result.weekly_avg_returns \subseteq {1, 2, 3, 4}

\* a slice of more than 20 trading days (a fifth trading week) was collected
C5_Witness ==
    /\ Returned
    /\ \E y \in Years :
           /\ InSeq(y, result.years)
           /\ NumObs(y, month_num) > 20
    /\ DOMAIN result.weekly_avg_returns = {1, 2, 3, 4}

(***************************************************************************)
(* C6.  weekly_return[w] is 100 times the arithmetic mean, over exactly    *)
(* the qualifying years with an observation in trading week w, of the      *)
(* year's month_return at the latest-dated observation of week w.          *)
(***************************************************************************)
C6_WeeklyMean ==
    Returned =>
        LET S == AsMap([y \in QualifyingYears(month_num) |-> Slice(y, month_num)])
        IN  \A w \in 1..4 :
                LET Y == {y \in DOMAIN S : ObsOfWeek(S[y], w) # {}}
                    last == AsMap([y \in Y |-> RebasedReturn(S[y], LastOfWeek(S[y], w))])
                IN  /\ Y # {} => w \in DOMAIN result.weekly_avg_returns
                    /\ w \in DOMAIN result.weekly_avg_returns =>
                           result.weekly_avg_returns[w] = Hundred(MeanOver(last, Y))

\* two qualifying years, only one of them reaches week 3; in week 4 the
\* last return differs from an earlier one of the week
C6_Witness ==
    /\ Returned
    /\ LET S == AsMap([y \in QualifyingYears(month_num) |-> Slice(y, month_num)])
       IN  /\ Cardinality({y \in DOMAIN S : ObsOfWeek(S[y], 1) # {}}) = 2
           /\ Cardinality({y \in DOMAIN S : ObsOfWeek(S[y], 3) # {}}) = 1
           /\ 3 \in DOMAIN result.weekly_avg_returns
           /\ result.weekly_avg_returns[3] # result.weekly_avg_returns[1]
           /\ \E y \in DOMAIN S :
                  \E i \in ObsOfWeek(S[y], 4) :
                      RebasedReturn(S[y], i)
                          # RebasedReturn(S[y], LastOfWeek(S[y], 4))

(***************************************************************************)
(* C7.  In a qualifying slice month_return is taken relative to the close  *)
(* of the slice's own earliest filtered observation, so it is exactly 0    *)
(* there, whatever the order of the input rows.                            *)
(***************************************************************************)
C7_Rebasing ==
    Processed =>
        LET first == Slice(year, month_num).at[1]
        IN  /\ \E k \in 1..Len(year_month) :
                   year_month[k].index = data[first].index
            /\ \A k \in 1..Len(year_month) :
                   /\ year_month[k].Month_Return
                          = RSub(RDiv(year_month[k].Close, data[first].Close), Num(1))
                   /\ year_month[k].index = data[first].index
                          => year_month[k].Month_Return = <<0, 1>>

\* the rows of the slice arrive out of date order, the slice's first row in
\* input order and the observation before the slice both close elsewhere
C7_Witness ==
    /\ Processed
    /\ LET V == ValidObs(year, month_num)
           first == Slice(year, month_num).at[1]
           lead == CHOOSE i \in V : \A j \in V : i <= j
       IN  /\ \E i, j \in V : i < j /\ data[i].index > data[j].index
           /\ data[lead].Close # data[first].Close
           /\ \E p \in 1..Len(data) :
                  /\ data[p].index < data[first].index
                  /\ data[p].Close # NaN
                  /\ data[p].Close # data[first].Close

(***************************************************************************)
(* C8.  In a qualifying slice of n filtered observations the trading_day   *)
(* values in ascending date order are exactly 1..n, whatever the calendar  *)
(* gaps, and trading_week is floor((trading_day - 1) / 5) + 1.             *)
(***************************************************************************)
C8_TradingDays ==
    Processed =>
        LET V == ValidObs(year, month_num)
            n == Cardinality(V)
        IN  /\ Len(year_month) = n
            /\ {year_month[k].Trading_Day : k \in 1..Len(year_month)} = 1..n
            /\ \A k \in 1..Len(year_month) :
                   /\ year_month[k].Trading_Day
                          = 1 + Cardinality({j \in V :
                                                data[j].index < year_month[k].index})
                   /\ 5 * (year_month[k].Trading_Week - 1) < year_month[k].Trading_Day
                   /\ year_month[k].Trading_Day <= 5 * year_month[k].Trading_Week

\* a slice with calendar gaps that reaches its third trading week
C8_Witness ==
    /\ Processed
    /\ \E k \in 1..(Len(year_month) - 1) :
           /\ year_month[k + 1].Trading_Day = year_month[k].Trading_Day + 1
           /\ year_month[k + 1].Day_of_Month > year_month[k].Day_of_Month + 1
    /\ \E k \in 1..Len(year_month) :
           year_month[k].Trading_Week = 3 /\ year_month[k].Trading_Day = 11

(***************************************************************************)
(* C9, its parts, for the slice S of the year just processed.              *)
(***************************************************************************)
\* of every processed year exactly the interior observations have given a
\* momentum value, and every observation a win/loss flag
C9_Contributors ==
    LET T == AsMap([y \in ProcessedYears |-> Slice(y, month_num)])
        interior == AsMap([y \in ProcessedYears |-> InteriorDays(T[y])])
        all == AsMap([y \in ProcessedYears |-> ObsDays(T[y])])
    IN  \A d \in Days :
            /\ CountAt(momentum_by_day, d)
                   = Cardinality({y \in ProcessedYears : d \in interior[y]})
            /\ CountAt(positive_days_by_day, d)
                   = Cardinality({y \in ProcessedYears : d \in all[y]})

\* an interior observation gives, under its calendar day, the mean of
\* daily_return over itself and its two neighbours by date
C9_MomentumValues(S) ==
    \A r \in 2..(S.n - 1) :
        LastAt(momentum_by_day, data[S.at[r]].Day)
            = RDiv(RAdd(RAdd(data[S.at[r - 1]].Daily_Return,
                             data[S.at[r]].Daily_Return),
                        data[S.at[r + 1]].Daily_Return), Num(3))

\* the first observation's close is the base of the year's weekly values
C9_FirstIsWeeklyBase(S) ==
    \A w \in DOMAIN weekly_returns :
        ObsOfWeek(S, w) # {} =>
            LastAt(weekly_returns, w)
                = RSub(RDiv(data[LastOfWeek(S, w)].Close, data[S.at[1]].Close),
                       Num(1))

\* the last observation's month_return is the value collected for its week
C9_LastGivesWeeklyValue(S) ==
    /\ S.week[S.at[S.n]] \in DOMAIN weekly_returns
    /\ LastAt(weekly_returns, S.week[S.at[S.n]]) = RebasedReturn(S, S.at[S.n])

(***************************************************************************)
(* C9 as claimed.  The first and the last observation never contribute to  *)
(* momentum, every interior one does; the first and the last still         *)
(* contribute to win_rate and to the weekly aggregation.                   *)
(***************************************************************************)
C9_BoundaryAsClaimed ==
    Processed =>
        LET S == Slice(year, month_num)
        IN  /\ C9_Contributors
            /\ C9_MomentumValues(S)
            /\ C9_FirstIsWeeklyBase(S)
            /\ C9_LastGivesWeeklyValue(S)

(***************************************************************************)
(* C9 amended.  As claimed for momentum and win_rate; in the weekly        *)
(* aggregation the first observation is the base of every value, and the   *)
(* last observation gives the value of its week when the slice has at most *)
(* 20 observations and no value when it has more.                          *)
(***************************************************************************)
C9_Boundary ==
    Processed =>
        LET S == Slice(year, month_num)
        IN  /\ C9_Contributors
            /\ C9_MomentumValues(S)
            /\ C9_FirstIsWeeklyBase(S)
            /\ S.n <= 20 => C9_LastGivesWeeklyValue(S)
            /\ S.n > 20 =>
                   \A w \in DOMAIN weekly_returns :
                       ObsOfWeek(S, w) # {} /\ LastOfWeek(S, w) # S.at[S.n]

\* the second qualifying year has more than 20 observations; its first day
\* is an interior day of the other year, whose momentum is kept under it
C9_Witness ==
    /\ Processed
    /\ Len(years_processed) = 2
    /\ LET S == Slice(year, month_num)
           d == data[S.at[1]].Day
       IN  /\ S.n > 20
           /\ CountAt(momentum_by_day, d) = 1
           /\ CountAt(positive_days_by_day, d) = 2

(***************************************************************************)
(* C10.  win_rate[d] is 100 times the number of qualifying years whose     *)
(* observation on day d has a daily_return strictly greater than 0, over   *)
(* the number of qualifying years with an observation on day d; it lies    *)
(* in [0, 100].                                                            *)
(***************************************************************************)
C10_WinRate ==
    Returned =>
        LET S == AsMap([y \in QualifyingYears(month_num) |-> Slice(y, month_num)])
            days == AsMap([y \in DOMAIN S |-> ObsDays(S[y])])
        IN  \A d \in Days :
                LET Y == {y \in DOMAIN S : d \in days[y]}
                    W == {y \in Y : data[ObsOnDay(S[y], d)].Daily_Return[1] > 0}
                IN  /\ Y # {} => d \in DOMAIN result.win_rates
                    /\ d \in DOMAIN result.win_rates =>
                           /\ Y # {}
                           /\ result.win_rates[d]
                                  = Norm(100 * Cardinality(W), Cardinality(Y))
                           /\ ~RGt(Num(0), result.win_rates[d])
                           /\ ~RGt(result.win_rates[d], Num(100))

\* a day on which one of two years wins, and a day whose only return is 0
C10_Witness ==
    /\ Returned
    /\ \E d \in DOMAIN result.win_rates : result.win_rates[d] = <<50, 1>>
    /\ \E d \in DOMAIN result.win_rates :
           /\ result.win_rates[d] = <<0, 1>>
           /\ \E y \in QualifyingYears(month_num) :
                  \E i \in ValidObs(y, month_num) :
                      data[i].Day = d /\ data[i].Daily_Return = <<0, 1>>

(***************************************************************************)
(* C11.  In each of the three returned mappings a key is present only if   *)
(* at least one qualifying year contributed a value under it: a week or    *)
(* day without a contributor is absent, every collected list is non-empty  *)
(* and no mean is taken over an empty list.                                *)
(***************************************************************************)
C11_KeysHaveContributors ==
    /\ \A w \in DOMAIN weekly_returns : Len(weekly_returns[w]) >= 1
    /\ \A d \in DOMAIN momentum_by_day : Len(momentum_by_day[d]) >= 1
    /\ \A d \in DOMAIN positive_days_by_day : Len(positive_days_by_day[d]) >= 1
    /\ Answered =>
           LET S == AsMap([y \in QualifyingYears(month_num) |-> Slice(y, month_num)])
               interior == AsMap([y \in DOMAIN S |-> InteriorDays(S[y])])
               all == AsMap([y \in DOMAIN S |-> ObsDays(S[y])])
           IN  /\ DOMAIN result.weekly_avg_returns
                      = {w \in 1..4 : \E y \in DOMAIN S : ObsOfWeek(S[y], w) # {}}
               /\ DOMAIN result.momentum_avg
                      = {d \in Days : \E y \in DOMAIN S : d \in interior[y]}
               /\ DOMAIN result.win_rates
                      = {d \in Days : \E y \in DOMAIN S : d \in all[y]}
               /\ \A w \in DOMAIN result.weekly_avg_returns :
                      notna(result.weekly_avg_returns[w])
               /\ \A d \in DOMAIN result.momentum_avg : notna(result.momentum_avg[d])
               /\ \A d \in DOMAIN result.win_rates : notna(result.win_rates[d])

\* a qualifying year of 10 observations: weeks 3 and 4 are absent, and the
\* days of its first and last observation have a win rate but no momentum
C11_Witness ==
    /\ Returned
    /\ result.years # <<>>
    /\ DOMAIN result.weekly_avg_returns = {1, 2}
    /\ Cardinality(DOMAIN result.win_rates \ DOMAIN result.momentum_avg) = 2

(***************************************************************************)
(* The month profile as a function of the month and the series alone.      *)
(***************************************************************************)
\* the qualifying years of month m, in the order in which the years first
\* appear among the rows of the month
YearsInOrder(m) ==
    LET Q == QualifyingYears(m)
        firstrow == AsMap([y \in Q |->
                              CHOOSE i \in 1..Len(data) :
                                  /\ data[i].Year = y /\ data[i].Month = m
                                  /\ \A j \in 1..(i - 1) :
                                         ~(data[j].Year = y /\ data[j].Month = m)])
    IN  AsSeq([k \in 1..Cardinality(Q) |->
                  CHOOSE y \in Q :
                      Cardinality({z \in Q : firstrow[z] <= firstrow[y]}) = k])

\* the mean of daily_return over the observation of slice S on day d and
\* its two neighbours by date
MomentumAt(S, d) ==
    LET r == S.rank[ObsOnDay(S, d)]
    IN  RDiv(RAdd(RAdd(data[S.at[r - 1]].Daily_Return, data[S.at[r]].Daily_Return),
                  data[S.at[r + 1]].Daily_Return), Num(3))

Profile(m) ==
    LET S == AsMap([y \in QualifyingYears(m) |-> Slice(y, m)])
        interior == AsMap([y \in DOMAIN S |-> InteriorDays(S[y])])
        all == AsMap([y \in DOMAIN S |-> ObsDays(S[y])])
    IN  [weekly_avg_returns |->
             [w \in {v \in 1..4 : \E y \in DOMAIN S : ObsOfWeek(S[y], v) # {}} |->
                 LET Y == {y \in DOMAIN S : ObsOfWeek(S[y], w) # {}}
                     last == AsMap([y \in Y |->
                                       RebasedReturn(S[y], LastOfWeek(S[y], w))])
                 IN  Hundred(MeanOver(last, Y))],
         momentum_avg |->
             [d \in {e \in Days : \E y \in DOMAIN S : e \in interior[y]} |->
                 LET Y == {y \in DOMAIN S : d \in interior[y]}
                     mom == AsMap([y \in Y |-> MomentumAt(S[y], d)])
                 IN  Hundred(MeanOver(mom, Y))],
         win_rates |->
             [d \in {e \in Days : \E y \in DOMAIN S : e \in all[y]} |->
                 LET Y == {y \in DOMAIN S : d \in all[y]}
                     W == {y \in Y : data[ObsOnDay(S[y], d)].Daily_Return[1] > 0}
                 IN  Norm(100 * Cardinality(W), Cardinality(Y))],
         years |-> YearsInOrder(m)]

(***************************************************************************)
(* C12.  analyze_month_patterns is a pure function of the month and the    *)
(* series: no step of a call changes the series, and whichever loop calls  *)
(* it, after whichever other months, what it returns is the profile        *)
(* determined by the month and the series alone; so a second call for a    *)
(* month returns what the first one did.                                   *)
(***************************************************************************)
C12_PureFunction ==
    /\ [][pc # "download" => data' = data]_vars
    /\ [](Answered => result = Profile(month_num))

\* the second call for a month with qualifying years, made after the
\* calls for a later month that has qualifying years too
C12_Witness ==
    /\ ReturnedToTab
    /\ result.years # <<>>
    /\ result = Profile(month_num)
    /\ \E i \in 1..Len(summary_data) : summary_data[i].Month = month_num
    /\ \E m \in Months : m > month_num /\ QualifyingYears(m) # {}

(***************************************************************************)
(* C13 as claimed.  For every degenerate input, the empty series included, *)
(* the month profiles and the annual summary are produced without          *)
(* stopping; a month with no qualifying year yields empty mappings and an  *)
(* empty years list.                                                       *)
(***************************************************************************)
C13_NeverStops ==
    /\ pc # "stopped"
    /\ (Answered /\ QualifyingYears(month_num) = {}) => result = EmptyResult

(***************************************************************************)
(* C13 amended.  For an empty series main stops before any profile or      *)
(* summary is computed, and it stops for no other input.  For every other  *)
(* input, degenerate or not, every month gets its profile in both loops;   *)
(* a month with no qualifying year yields empty mappings and an empty      *)
(* years list; the summary rows are well formed, and there is none when no *)
(* month has a qualifying year.                                            *)
(***************************************************************************)
C13_DegenerateInputs ==
    /\ pc = "stopped" => data = <<>> /\ summary_data = <<>> /\ tab_view = <<>>
    /\ pc \notin {"download", "stopped"} => data # <<>>
    /\ (Answered /\ QualifyingYears(month_num) = {}) => result = EmptyResult
    /\ \A m \in 1..Len(tab_view) :
           tab_view[m] = "insufficient" <=> QualifyingYears(m) = {}
    /\ \A i \in 1..Len(summary_data) :
           LET row == summary_data[i]
           IN  /\ row.Month \in Months
               /\ row.Years >= 1
               /\ notna(row.Monthly_Return)
               /\ notna(row.Avg_Momentum)
               /\ notna(row.Win_Rate)
    /\ pc = "done" =>
           /\ Len(tab_view) = 12
           /\ (\A m \in Months : QualifyingYears(m) = {}) => summary_data = <<>>

\* a series of a single observation has gone through both loops: no
\* summary row, every month tab shows the insufficient-data notice
C13_Witness ==
    /\ pc = "done"
    /\ Len(data) = 1
    /\ summary_data = <<>>
    /\ result = EmptyResult
    /\ \A m \in Months : tab_view[m] = "insufficient"

(***************************************************************************)
(* C14, the scenario: the filtered slice of the year being visited opens   *)
(* with the closes 100, 101, 99, 102, 103.                                 *)
(***************************************************************************)
OpensWithFive ==
    /\ Len(year_month) >= 5
    /\ \A k \in 1..5 : year_month[k].Close = Num(FiveCloses[k])

(***************************************************************************)
(* C14 as claimed.  For a single year whose slice consists of the closes   *)
(* 100, 101, 99, 102, 103 on trading days 1-5, weekly_return[1] is 3.0     *)
(* percent, and momentum is defined for the days of observations 2-4 and   *)
(* undefined for those of observations 1 and 5.                            *)
(***************************************************************************)
C14_FiveDaySlice ==
    (Returned /\ OpensWithFive /\ Len(year_month) = 5) =>
        /\ DOMAIN result.weekly_avg_returns = {1}
        /\ result.weekly_avg_returns[1] = Num(3)
        /\ DOMAIN result.momentum_avg
               = {year_month[k].Day : k \in 2..4}

(***************************************************************************)
(* C14 amended.  A slice of these five observations alone is below the     *)
(* threshold of 10 and yields nothing.  When a qualifying slice opens with *)
(* them, month_return over them is 0, 0.01, -0.01, 0.02, 0.03, the year's  *)
(* value for week 1 is 0.03 (3.0 percent in the result), and momentum is   *)
(* undefined at the first and at the last observation of the slice and     *)
(* defined at every one between, observations 2-4 among them.              *)
(***************************************************************************)
C14_OpeningFive ==
    /\ (Returned /\ OpensWithFive /\ Len(year_month) < MinObs) =>
           result = EmptyResult
    /\ (Processed /\ OpensWithFive) =>
           LET n == Len(year_month)
           IN  /\ n >= MinObs
               /\ [k \in 1..5 |-> year_month[k].Month_Return]
                      = <<Num(0), <<1, 100>>, <<-1, 100>>, <<1, 50>>, <<3, 100>>>>
               /\ weekly_returns[1] = << <<3, 100>> >>
               /\ isnan(year_month[1].Rolling_Return)
               /\ isnan(year_month[n].Rolling_Return)
               /\ \A k \in 2..(n - 1) : notna(year_month[k].Rolling_Return)
               /\ DOMAIN momentum_by_day = {year_month[k].Day : k \in 2..(n - 1)}
    /\ (Returned /\ OpensWithFive /\ Len(year_month) >= MinObs) =>
           result.weekly_avg_returns[1] = Num(3)

\* the five closes open a slice of exactly 10 observations, which has been
\* processed and returned
C14_Witness ==
    /\ Returned
    /\ OpensWithFive
    /\ Len(year_month) = MinObs
    /\ result.years = <<1>>
    /\ result.weekly_avg_returns[1] = Num(3)
    /\ 6 \in DOMAIN result.momentum_avg

(***************************************************************************)
(* C15 as claimed.  A year with fewer than 3 observations in its slice is  *)
(* excluded from momentum while it still contributes to win_rate: the day  *)
(* of each of its observations has a win rate and no momentum.             *)
(***************************************************************************)
C15_ShortYearInWinRate ==
    Answered =>
        \A y \in Years :
            (1 <= NumObs(y, month_num) /\ NumObs(y, month_num) < 3) =>
                \A i \in ValidObs(y, month_num) :
                    /\ data[i].Day \in DOMAIN result.win_rates
                    /\ data[i].Day \notin DOMAIN result.momentum_avg

(***************************************************************************)
(* C15 amended.  The years contributing to win_rate and to momentum never  *)
(* differ: every processed slice has at least 10, so at least 3,           *)
(* observations; exactly the qualifying years contribute to either         *)
(* mapping, each of them to both; a year with fewer than 3 observations    *)
(* contributes to neither.                                                 *)
(***************************************************************************)
C15_SameContributors ==
    /\ Processed => Len(year_month) >= 3
    /\ Answered =>
           LET Q == QualifyingYears(month_num)
               S == AsMap([y \in Q |-> Slice(y, month_num)])
               interior == AsMap([y \in Q |-> InteriorDays(S[y])])
               all == AsMap([y \in Q |-> ObsDays(S[y])])
           IN  /\ \A y \in Q : interior[y] # {} /\ all[y] # {}
               /\ \A d \in Days :
                      /\ CountAt(momentum_by_day, d)
                             = Cardinality({y \in Q : d \in interior[y]})
                      /\ CountAt(positive_days_by_day, d)
                             = Cardinality({y \in Q : d \in all[y]})

\* a year with one observation in the month: its day has neither a win
\* rate nor a momentum
C15_Witness ==
    /\ Answered
    /\ \E y \in Years :
           /\ NumObs(y, month_num) = 1
           /\ \A i \in ValidObs(y, month_num) :
                  /\ data[i].Day \notin DOMAIN result.win_rates
                  /\ data[i].Day \notin DOMAIN result.momentum_avg

(***************************************************************************)
(* C16.  Whenever a month has a qualifying year, weekly_return has the     *)
(* keys 1 and 2, each averaged over exactly as many values as there are    *)
(* qualifying years, so weekly_return is never empty then and the summary  *)
(* row never falls back to a return of 0 for want of weekly values.        *)
(***************************************************************************)
C16_FirstTwoWeeks ==
    /\ years_processed # <<>> =>
           /\ {1, 2} \subseteq DOMAIN weekly_returns
           /\ Len(weekly_returns[1]) = Len(years_processed)
           /\ Len(weekly_returns[2]) = Len(years_processed)
    /\ (Answered /\ result.years # <<>>) =>
           /\ {1, 2} \subseteq DOMAIN result.weekly_avg_returns
           /\ Len(result.years) = Cardinality(QualifyingYears(month_num))
           /\ Len(weekly_returns[1]) = Len(result.years)
           /\ Len(weekly_returns[2]) = Len(result.years)
    /\ RowHandled =>
           (include_row(result.years) <=> DOMAIN result.weekly_avg_returns # {})

\* two qualifying years, one of them with 10 observations only: weeks 1 and
\* 2 hold two values each, week 3 one
C16_Witness ==
    /\ Returned
    /\ Len(result.years) = 2
    /\ Len(weekly_returns[1]) = 2
    /\ Len(weekly_returns[2]) = 2
    /\ Len(weekly_returns[3]) = 1
    /\ \E y \in Years : NumObs(y, month_num) = 10

(***************************************************************************)
(* C17, vocabulary: the first observation of the series is row 1 of the    *)
(* frame; its slice is the one being visited.                              *)
(***************************************************************************)
Downloaded == pc \notin {"download", "stopped"}

InFirstSlice ==
    /\ pc = "years"
    /\ year = data[1].Year
    /\ month_num = data[1].Month

Ascending == \A i, j \in 1..Len(data) : i < j => data[i].index < data[j].index

\* every month_return of the slice being visited is relative to close c
RebasedOn(c) ==
    \A k \in 1..Len(year_month) :
        year_month[k].Month_Return = RSub(RDiv(year_month[k].Close, c), Num(1))

\* the first observation has no daily_return, is in no filtered slice, does
\* not count toward the threshold and gives no win/loss or momentum value
C17_FirstObservationExcluded ==
    /\ Downloaded => isnan(data[1].Daily_Return)
    /\ InFirstSlice =>
           /\ \A k \in 1..Len(year_month) : year_month[k].index # data[1].index
           /\ Len(year_month)
                  = Cardinality({i \in 2..Len(data) :
                                    /\ data[i].Year = year
                                    /\ data[i].Month = month_num
                                    /\ notna(data[i].Close)
                                    /\ notna(data[i].Daily_Return)})
    /\ (InFirstSlice /\ Processed) =>
           /\ Len(year_month) >= MinObs
           /\ \A d \in DOMAIN momentum_by_day :
                  \A k \in 1..Len(momentum_by_day[d]) : notna(momentum_by_day[d][k])
           /\ CountAt(positive_days_by_day, data[1].Day)
                  = Cardinality({y \in ProcessedYears :
                                    \E i \in 2..Len(data) :
                                        /\ i \in ValidObs(y, month_num)
                                        /\ data[i].Day = data[1].Day})

C18_WeekFourCutoff ==
    (Processed /\ Len(year_month) > 20) =>
        LET S == Slice(year, month_num)
        IN  /\ S.n = Len(year_month)
            /\ DOMAIN weekly_returns = 1..4
            /\ \A w \in 1..4 :
                   LastAt(weekly_returns, w)
                       = RSub(RDiv(data[S.at[5 * w]].Close, data[S.at[1]].Close),
                              Num(1))
            /\ \A r \in 21..S.n :
                   LET d == data[S.at[r]].Day
                       p == data[S.at[r - 1]].Day
                   IN  /\ d \in DOMAIN positive_days_by_day
                       /\ LastAt(positive_days_by_day, d)
                              = Num(IF data[S.at[r]].Daily_Return[1] > 0 THEN 1 ELSE 0)
                       /\ p \in DOMAIN momentum_by_day
                       /\ LastAt(momentum_by_day, p)
                              = RDiv(RAdd(RAdd(data[S.at[r - 2]].Daily_Return,
                                               data[S.at[r - 1]].Daily_Return),
                                          data[S.at[r]].Daily_Return), Num(3))

\* a slice of more than 20 observations whose month_return at the last one
\* differs from that at trading day 20, and whose last daily_return is not 0
C18_Witness ==
    /\ Processed
    /\ Len(year_month) > 20
    /\ year_month[Len(year_month)].Month_Return # year_month[20].Month_Return
    /\ LastAt(weekly_returns, 4) = year_month[20].Month_Return
    /\ year_month[Len(year_month)].Daily_Return # Num(0)

====
